---- MODULE Spec2Model ----
(***************************************************************************)
(* Verification model of the knowledge-app backend: the provider registry  *)
(* (services/providers/__init__.py), the provider management router        *)
(* (routers/providers.py), the response cache (database.py) and the        *)
(* request handlers that use them (routers/ask.py, routers/summarize.py).  *)
(*                                                                         *)
(* Scheduling.  Every endpoint is an `async def` served by one event loop; *)
(* a handler without an await point runs to completion before another      *)
(* coroutine is resumed, so each such handler is one action.  The          *)
(* streaming endpoint suspends at every yield and is modelled step by      *)
(* step.  Worker processes that share the SQLite file are modelled by the  *)
(* second specification, SpecWorkers.                                      *)
(***************************************************************************)
EXTENDS Integers, Sequences, FiniteSets, TLC

VARIABLES
    phase,           \* "import" before the startup event, "serving" after it
    active_name,     \* _active_name
    active_model,    \* _active_model
    instance_cache,  \* _instance_cache: cache key -> reference to an adapter object
    adapters,        \* the adapter objects in order of construction; a reference is an index
    builds,          \* cache key -> number of adapters the registry constructed for it
    lastSwitch,      \* arguments of the last successful switch_provider call
    documents,       \* table documents: document id -> row
    llm_cache,       \* table llm_cache: the set of its rows
    saves,           \* cache key -> the results saved under it so far, in order
    stream,          \* the /api/ask/stream request in progress
    workers,         \* /api/ask requests in progress in other worker processes
    prev,            \* outcome of the request that ran just before the last one
    resp,            \* outcome of the operation that ran last
    call,            \* the last call of a service function: its arguments and what it returned
    tasks            \* document id -> position of its _process_document background task

\* ---------------------------------------------------------------------------
\* Bounds
\* ---------------------------------------------------------------------------

\* Adapter objects that may be allocated in one run.
MaxObjects == 8

\* Fragments one stream may deliver.
MaxTokens == 2

\* Worker processes that serve /api/ask on the same database file.
NumWorkers == 2

\* ---------------------------------------------------------------------------
\* Configuration (config.py)
\* ---------------------------------------------------------------------------

\* Python's None.
NoneVal == "<None>"

PROVIDER_NAMES ==
    {"ollama", "lm_studio", "localai", "text_generation_webui", "openai", "anthropic"}

\* Providers that exist only in config.yaml; merge_providers keeps them.
YamlOnlyProviders == {"vllm"}

\* Keys of settings.llm.providers: the six defaults are always merged in.
ConfiguredProviders == PROVIDER_NAMES \cup YamlOnlyProviders

DefaultProvider == "ollama"

default_model(name) ==
    CASE name = "ollama"                -> "llama3.2:latest"
      [] name = "lm_studio"             -> "local-model"
      [] name = "text_generation_webui" -> "default"
      [] name = "localai"               -> "gpt-3.5-turbo"
      [] name = "openai"                -> "gpt-4o"
      [] name = "anthropic"             -> "claude-sonnet-4-5-20250514"
      [] OTHER                          -> "yaml-model"

\* Provider names and model overrides a switch request is called with.
SwitchNames == {"ollama", "openai", "vllm", "bogus"}
SwitchModels == {NoneVal, "", "m1"}

\* ---------------------------------------------------------------------------
\* Adapters (providers/*.py)
\* ---------------------------------------------------------------------------

\* The null reference.
NoRef == 0

\* No switch_provider call has succeeded yet.
NoSwitch == <<>>

\* Python truthiness of an Optional[str].
Truthy(s) == s # NoneVal /\ s # ""

\* f"{name}:{model or ''}".  Only the six PROVIDER_NAMES can be built (see
\* _build_provider) and none of them contains ':', so the text before the
\* first ':' is the name and the pair below is the same key.
InstanceKey(name, model) == <<name, IF Truthy(model) THEN model ELSE "">>

\* provider_name property of the class _build_provider instantiates.
ProviderNameOf(name) ==
    CASE name = "ollama"                   -> "ollama"
      [] name \in {"lm_studio", "localai"} -> name
      [] name = "openai"                   -> "openai"
      [] name = "anthropic"                -> "anthropic"
      [] name = "text_generation_webui"    -> "text_generation_webui"
      [] OTHER                             -> NoneVal

\* An adapter object as its constructor leaves it: _model is set in __init__
\* and by nothing else.  built_for records the arguments of the
\* _build_provider call that made it.
NewAdapter(name, model_override) ==
    [provider_name |-> ProviderNameOf(name),
     active_model  |-> IF Truthy(model_override) THEN model_override
                       ELSE default_model(name),
     built_for     |-> <<name, model_override>>]

\* _build_provider(name, model_override): the adapter it returns, or the
\* error it raises.
_build_provider(name, model_override) ==
    IF name \notin ConfiguredProviders
    THEN [ok |-> FALSE, err |-> "not_configured", adapter |-> NewAdapter(name, model_override)]
    ELSE IF name \notin PROVIDER_NAMES
    THEN [ok |-> FALSE, err |-> "unknown_provider", adapter |-> NewAdapter(name, model_override)]
    ELSE [ok |-> TRUE, err |-> NoneVal, adapter |-> NewAdapter(name, model_override)]

\* The registry state a call leaves behind, with what it returned or raised.
RegResult(ok, err, ref, an, am, ic, ad, bl) ==
    [ok |-> ok, err |-> err, ref |-> ref,
     active_name |-> an, active_model |-> am, instance_cache |-> ic,
     adapters |-> ad, builds |-> bl]

CountBuild(bl, key) ==
    IF key \in DOMAIN bl THEN [bl EXCEPT ![key] = @ + 1] ELSE bl @@ (key :> 1)

\* get_provider() with the model override left out of the cache key.
get_provider_ignoring_model(an, am, ic, ad, bl) ==
    LET name == IF an = NoneVal THEN DefaultProvider ELSE an
        key  == InstanceKey(name, NoneVal)
    IN  IF key \in DOMAIN ic
        THEN RegResult(TRUE, NoneVal, ic[key], name, am, ic, ad, bl)
        ELSE LET b == _build_provider(name, NoneVal)
             IN  IF b.ok
                 THEN RegResult(TRUE, NoneVal, Len(ad) + 1, name, am,
                                ic @@ (key :> Len(ad) + 1), Append(ad, b.adapter),
                                CountBuild(bl, key))
                 ELSE RegResult(FALSE, b.err, NoRef, name, am, ic, ad, bl)

\* get_provider() run on the registry state (an, am, ic, ad, bl).
get_provider(an, am, ic, ad, bl) ==
    LET name == IF an = NoneVal THEN DefaultProvider ELSE an
        key  == InstanceKey(name, am)
    IN  IF key \in DOMAIN ic
        THEN RegResult(TRUE, NoneVal, ic[key], name, am, ic, ad, bl)
        ELSE LET b == _build_provider(name, am)
             IN  IF b.ok
                 THEN RegResult(TRUE, NoneVal, Len(ad) + 1, name, am,
                                ic @@ (key :> Len(ad) + 1), Append(ad, b.adapter),
                                CountBuild(bl, key))
                 ELSE RegResult(FALSE, b.err, NoRef, name, am, ic, ad, bl)

\* switch_provider() that changes the model of the active adapter object when
\* the provider stays the same, instead of building another adapter.
switch_provider_in_place(name, model, an, am, ic, ad, bl) ==
    IF name \notin PROVIDER_NAMES /\ name \notin ConfiguredProviders
    THEN RegResult(FALSE, "unknown_provider_name", NoRef, an, am, ic, ad, bl)
    ELSE LET key == InstanceKey(name, model)
             cur == InstanceKey(an, am)
         IN  IF key \in DOMAIN ic
             THEN RegResult(TRUE, NoneVal, ic[key], name, model, ic, ad, bl)
             ELSE IF name = an /\ cur \in DOMAIN ic
             THEN RegResult(TRUE, NoneVal, ic[cur], name, model,
                            ic @@ (key :> ic[cur]),
                            [ad EXCEPT ![ic[cur]].active_model =
                                 NewAdapter(name, model).active_model],
                            bl)
             ELSE LET b == _build_provider(name, model)
                  IN  IF b.ok
                      THEN RegResult(TRUE, NoneVal, Len(ad) + 1, name, model,
                                     ic @@ (key :> Len(ad) + 1), Append(ad, b.adapter),
                                     CountBuild(bl, key))
                      ELSE RegResult(FALSE, b.err, NoRef, an, am, ic, ad, bl)

\* switch_provider() that assigns _active_name and _active_model before it
\* builds the adapter.
switch_provider_assign_first(name, model, an, am, ic, ad, bl) ==
    IF name \notin PROVIDER_NAMES /\ name \notin ConfiguredProviders
    THEN RegResult(FALSE, "unknown_provider_name", NoRef, an, am, ic, ad, bl)
    ELSE LET key == InstanceKey(name, model)
         IN  IF key \in DOMAIN ic
             THEN RegResult(TRUE, NoneVal, ic[key], name, model, ic, ad, bl)
             ELSE LET b == _build_provider(name, model)
                  IN  IF b.ok
                      THEN RegResult(TRUE, NoneVal, Len(ad) + 1, name, model,
                                     ic @@ (key :> Len(ad) + 1), Append(ad, b.adapter),
                                     CountBuild(bl, key))
                      ELSE RegResult(FALSE, b.err, NoRef, name, model, ic, ad, bl)

\* switch_provider() that builds a new adapter on every call.
switch_provider_rebuilding(name, model, an, am, ic, ad, bl) ==
    IF name \notin PROVIDER_NAMES /\ name \notin ConfiguredProviders
    THEN RegResult(FALSE, "unknown_provider_name", NoRef, an, am, ic, ad, bl)
    ELSE LET key == InstanceKey(name, model)
             b == _build_provider(name, model)
         IN  IF b.ok
             THEN RegResult(TRUE, NoneVal, Len(ad) + 1, name, model,
                            [k \in DOMAIN ic \cup {key} |->
                                 IF k = key THEN Len(ad) + 1 ELSE ic[k]],
                            Append(ad, b.adapter), CountBuild(bl, key))
             ELSE RegResult(FALSE, b.err, NoRef, an, am, ic, ad, bl)

\* switch_provider() that keeps the previous model override when it is
\* called without one (_active_model = model or _active_model).
switch_provider_keeps_model(name, model, an, am, ic, ad, bl) ==
    IF name \notin PROVIDER_NAMES /\ name \notin ConfiguredProviders
    THEN RegResult(FALSE, "unknown_provider_name", NoRef, an, am, ic, ad, bl)
    ELSE LET key == InstanceKey(name, model)
             kept == IF Truthy(model) THEN model ELSE am
         IN  IF key \in DOMAIN ic
             THEN RegResult(TRUE, NoneVal, ic[key], name, kept, ic, ad, bl)
             ELSE LET b == _build_provider(name, model)
                  IN  IF b.ok
                      THEN RegResult(TRUE, NoneVal, Len(ad) + 1, name, kept,
                                     ic @@ (key :> Len(ad) + 1), Append(ad, b.adapter),
                                     CountBuild(bl, key))
                      ELSE RegResult(FALSE, b.err, NoRef, an, am, ic, ad, bl)

\* switch_provider(name, model) run on the registry state (an, am, ic, ad, bl).
switch_provider(name, model, an, am, ic, ad, bl) ==
    IF name \notin PROVIDER_NAMES /\ name \notin ConfiguredProviders
    THEN RegResult(FALSE, "unknown_provider_name", NoRef, an, am, ic, ad, bl)
    ELSE LET key == InstanceKey(name, model)
         IN  IF key \in DOMAIN ic
             THEN RegResult(TRUE, NoneVal, ic[key], name, model, ic, ad, bl)
             ELSE LET b == _build_provider(name, model)
                  IN  IF b.ok
                      THEN RegResult(TRUE, NoneVal, Len(ad) + 1, name, model,
                                     ic @@ (key :> Len(ad) + 1), Append(ad, b.adapter),
                                     CountBuild(bl, key))
                      ELSE RegResult(FALSE, b.err, NoRef, an, am, ic, ad, bl)

\* list_providers(): the names of the rows it returns.
list_providers == ConfiguredProviders

\* ---------------------------------------------------------------------------
\* Strings.  A string that takes part in a concatenation or a strip is a
\* sequence of one-character strings.
\* ---------------------------------------------------------------------------

Colon == <<":">>

TaskAsk       == <<"a", "s", "k">>
TaskSummarize == <<"s", "u", "m", "m", "a", "r", "i", "z", "e">>

StyleParagraph == <<"p", "a", "r", "a", "g", "r", "a", "p", "h">>
StyleBullets   == <<"b", "u", "l", "l", "e", "t", "s">>
LangEn == <<"e", "n">>
LangCs == <<"c", "s">>

\* Document ids are uuid4 strings (upload.py); one document is uploaded.
DocIds == {<<"d", "1">>}

\* Question texts (AskRequest.question, 3 to 2000 characters).  This one
\* reads like the cache_extra of a summarize request.
Questions == {StyleBullets \o Colon \o LangEn}

Styles    == {StyleBullets}
Languages == {LangEn, LangCs}

\* Texts a backend may answer with.
Outputs == {<<"A">>, <<" ", "B", " ">>}

IsSpace(c) == c \in {" ", "\n", "\t"}

RECURSIVE lstrip(_)
lstrip(t) == IF t # <<>> /\ IsSpace(Head(t)) THEN lstrip(Tail(t)) ELSE t

RECURSIVE rstrip(_)
rstrip(t) == IF t # <<>> /\ IsSpace(t[Len(t)]) THEN rstrip(SubSeq(t, 1, Len(t) - 1)) ELSE t

\* str.strip()
strip(t) == rstrip(lstrip(t))

\* ---------------------------------------------------------------------------
\* Response cache (database.py)
\* ---------------------------------------------------------------------------

\* get_settings().llm.ollama.model, the model cache_key falls back to.
\* config.py under src/ declares no `ollama` section; the setting is taken
\* to be a fixed configured model name.
OllamaModelSetting == <<"l", "3", ":", "x">>

\* hashlib.sha256(raw.encode()).hexdigest(): a digest stands for the one
\* text it was computed from.
sha256(raw) == <<"sha256", raw>>

\* cache_key(document_id, task, extra, model)
cache_key(document_id, task, extra, model) ==
    LET m == IF model = <<>> THEN OllamaModelSetting ELSE model
    IN  sha256(document_id \o Colon \o task \o Colon \o m \o Colon \o extra)

\* Rows of llm_cache with the given primary key.
RowsOf(cache, key) == {row \in cache : row.cache_key = key}

\* A dict with at least one key is truthy (`if cached:`); every result the
\* handlers store has five keys.  None stands for "no row".
NoResult == [none |-> TRUE]

\* get_cached_result(doc_id, task, extra, model) on the table `cache`:
\* fetchone() of the rows with that key, json.loads of its result.
get_cached_result(cache, doc_id, task, extra, model) ==
    LET rows == RowsOf(cache, cache_key(doc_id, task, extra, model))
    IN  IF rows = {} THEN NoResult ELSE (CHOOSE row \in rows : TRUE).result

\* save_cached_result() that passes extra and model to cache_key in the
\* wrong order.
save_cached_result_swapped(cache, doc_id, task, result, extra, model, generated_by) ==
    LET key == cache_key(doc_id, task, model, extra)
    IN  (cache \ RowsOf(cache, key))
            \cup {[cache_key |-> key, document_id |-> doc_id, task |-> task,
                   result |-> result, generated_by |-> generated_by]}

\* save_cached_result() with INSERT OR IGNORE: an existing row is kept.
save_cached_result_ignore(cache, doc_id, task, result, extra, model, generated_by) ==
    LET key == cache_key(doc_id, task, extra, model)
    IN  IF RowsOf(cache, key) # {} THEN cache
        ELSE cache \cup {[cache_key |-> key, document_id |-> doc_id, task |-> task,
                          result |-> result, generated_by |-> generated_by]}

\* save_cached_result(doc_id, task, result, extra, model) on the table
\* `cache`: INSERT OR REPLACE under the primary key cache_key.  The row keeps
\* the result as json.dumps wrote it; for a dict of strings, integers and
\* booleans json.loads gives the same dict back.  generated_by is not a
\* column: it records the model of the adapter that produced the result.
save_cached_result(cache, doc_id, task, result, extra, model, generated_by) ==
    LET key == cache_key(doc_id, task, extra, model)
    IN  (cache \ RowsOf(cache, key))
            \cup {[cache_key |-> key, document_id |-> doc_id, task |-> task,
                   result |-> result, generated_by |-> generated_by]}

\* ---------------------------------------------------------------------------
\* Generation (llm_service.generate / stream_generate of the provider-based
\* revision, which src/ does not hold: the active adapter is obtained with
\* get_provider() and the call is made on it)
\* ---------------------------------------------------------------------------

\* Outcomes of one adapter.generate call: a text, or an exception.
Raise == <<"!raise">>
GenerateOutcomes == Outputs \cup {Raise}

\* rag.top_k
top_k == 5

Min(a, b) == IF a <= b THEN a ELSE b

\* Number of texts retrieve_relevant_chunks returns for a document of n chunks.
RetrievedCount(n) == Min(n, top_k)

\* ---------------------------------------------------------------------------
\* Responses
\* ---------------------------------------------------------------------------

NoDetail == [requested |-> NoneVal, valid |-> {}]

\* What a provider operation returned: the HTTP status, the adapter
\* reference it obtained, the error detail, and its arguments.
Response(op, status, ref, detail, name, model) ==
    [op |-> op, status |-> status, ref |-> ref, detail |-> detail,
     name |-> name, model |-> model]

\* What a request on a document returned: the HTTP status, the body (NoResult
\* with an error), whether a generation call was made, and the model of the
\* adapter that was active when the request was served.
DocResponse(op, status, doc_id, extra, body, generated, served_model) ==
    [op |-> op, status |-> status, doc_id |-> doc_id, extra |-> extra,
     body |-> body, generated |-> generated, served_model |-> served_model]

NoResponse == Response("none", 0, NoRef, NoDetail, NoneVal, NoneVal)

\* ---------------------------------------------------------------------------
\* Initial state: the modules have been imported, the tables created, the
\* startup event not yet run
\* ---------------------------------------------------------------------------

\* No service function has been called yet.
NoCall == [fn |-> "none"]

IdleStream == [pc |-> "idle", doc_id |-> <<>>, question |-> <<>>, ref |-> NoRef,
               identity |-> <<NoneVal, NoneVal>>, payload_model |-> NoneVal,
               tokens |-> <<>>]

Init ==
    /\ phase = "import"
    /\ active_name = NoneVal
    /\ active_model = NoneVal
    /\ instance_cache = <<>>
    /\ adapters = <<>>
    /\ builds = <<>>
    /\ lastSwitch = NoSwitch
    /\ documents = <<>>
    /\ llm_cache = {}
    /\ saves = <<>>
    /\ stream = IdleStream
    /\ workers = <<>>
    /\ prev = NoResponse
    /\ resp = NoResponse
    /\ call = NoCall
    /\ tasks = <<>>

regVars == <<active_name, active_model, instance_cache, adapters, builds>>
dbVars  == <<documents, llm_cache, saves>>

SetRegistry(r) ==
    /\ active_name' = r.active_name
    /\ active_model' = r.active_model
    /\ instance_cache' = r.instance_cache
    /\ adapters' = r.adapters
    /\ builds' = r.builds

\* prev is kept for two document requests in a row, which is all that reads it.
Respond(r) ==
    /\ resp' = r
    /\ prev' = IF resp.op \in {"ask", "summarize"} /\ r.op \in {"ask", "summarize"}
               THEN resp ELSE NoResponse

\* ---------------------------------------------------------------------------
\* Provider management (main.py, routers/providers.py)
\* ---------------------------------------------------------------------------

\* main.startup_event: init_db() and the first get_provider().
Startup ==
    /\ phase = "import"
    /\ LET r == get_provider(active_name, active_model, instance_cache, adapters, builds)
       IN  /\ SetRegistry(r)
           /\ phase' = IF r.ok THEN "serving" ELSE "failed"
           /\ Respond(Response("startup", IF r.ok THEN 200 ELSE 500, r.ref,
                               NoDetail, NoneVal, NoneVal))
    /\ UNCHANGED <<call, tasks, lastSwitch, dbVars, stream, workers>>

\* GET /api/providers/active and GET /api/health: p = get_provider().
get_active_provider ==
    /\ phase = "serving"
    /\ Len(adapters) < MaxObjects
    /\ LET r == get_provider(active_name, active_model, instance_cache, adapters, builds)
       IN  /\ SetRegistry(r)
           /\ Respond(Response("get_provider", IF r.ok THEN 200 ELSE 500, r.ref,
                               NoDetail, NoneVal, NoneVal))
    /\ UNCHANGED <<call, tasks, phase, lastSwitch, dbVars, stream, workers>>

\* The switch endpoint without its own check of the provider name.
switch_active_provider_unchecked(name, model) ==
    /\ phase = "serving"
    /\ Len(adapters) < MaxObjects
    /\ LET r == switch_provider(name, model, active_name, active_model,
                                instance_cache, adapters, builds)
       IN  /\ SetRegistry(r)
           /\ lastSwitch' = IF r.ok THEN <<name, model>> ELSE lastSwitch
           /\ Respond(Response("switch", IF r.ok THEN 200 ELSE 500, r.ref,
                               IF r.ok THEN NoDetail
                               ELSE [requested |-> name, valid |-> {}],
                               name, model))
    /\ UNCHANGED <<call, tasks, phase, dbVars, stream, workers>>

\* POST /api/providers/switch with body (name, model).
switch_active_provider(name, model) ==
    /\ phase = "serving"
    /\ Len(adapters) < MaxObjects
    /\ IF name \notin list_providers
       THEN /\ Respond(Response("switch", 400, NoRef,
                                [requested |-> name, valid |-> list_providers],
                                name, model))
            /\ UNCHANGED <<regVars, lastSwitch>>
       ELSE LET r == switch_provider(name, model, active_name, active_model,
                                     instance_cache, adapters, builds)
            IN  /\ SetRegistry(r)
                /\ lastSwitch' = IF r.ok THEN <<name, model>> ELSE lastSwitch
                /\ Respond(Response("switch", IF r.ok THEN 200 ELSE 500, r.ref,
                                    IF r.ok THEN NoDetail
                                    ELSE [requested |-> name, valid |-> {}],
                                    name, model))
    /\ UNCHANGED <<call, tasks, phase, dbVars, stream, workers>>

SwitchActiveProvider == \E name \in SwitchNames, model \in SwitchModels :
                            switch_active_provider(name, model)

\* ---------------------------------------------------------------------------
\* Upload and ingestion (routers/upload.py)
\* ---------------------------------------------------------------------------

\* What ingestion may store for a document: nothing, two short chunks, or
\* chunks whose joined text is as long as the character budget of the
\* prompts, or one character longer.
DocContents == {[nchunks |-> 0, full_text_len |-> 0],
                [nchunks |-> 2, full_text_len |-> 40],
                [nchunks |-> 2, full_text_len |-> 24000],
                [nchunks |-> 3, full_text_len |-> 24001]}

\* POST /api/upload of one file: the row is saved with status pending and
\* _process_document is queued as a background task.
upload_files ==
    /\ phase = "serving"
    /\ \E d \in DocIds \ DOMAIN documents :
           documents' = documents @@
               (d :> [status |-> "pending", nchunks |-> 0, full_text_len |-> 0])
    /\ Respond(Response("upload", 202, NoRef, NoDetail, NoneVal, NoneVal))
    /\ UNCHANGED <<call, tasks, phase, regVars, lastSwitch, llm_cache, saves, stream, workers>>

\* The background task _process_document(doc_id): it has no await point, so
\* the event loop runs it in one piece.  Either extract_text raises, or the
\* status becomes ready and index_document stores the chunks, or
\* index_document raises after the chunks were stored.
_process_document ==
    /\ phase = "serving"
    /\ \E d \in DOMAIN documents, c \in DocContents,
          outcome \in {"extract_fails", "indexed", "index_fails"} :
           /\ documents[d].status = "pending"
           /\ documents' = [documents EXCEPT ![d] =
                  CASE outcome = "extract_fails" -> [@ EXCEPT !.status = "error"]
                    [] outcome = "indexed" ->
                           [status |-> "ready", nchunks |-> c.nchunks,
                            full_text_len |-> c.full_text_len]
                    [] outcome = "index_fails" ->
                           [status |-> "error", nchunks |-> c.nchunks,
                            full_text_len |-> c.full_text_len]]
    /\ UNCHANGED <<call, tasks, phase, regVars, lastSwitch, llm_cache, saves, stream, workers,
                   prev, resp>>

\* ---------------------------------------------------------------------------
\* Structured output of the highlights prompt (routers/highlights.py).
\* Provider outputs are texts over backtick, quote, colon, braces, the digit
\* 1, the letters of "json", "topics" and "x", blank and newline.  On these texts json.loads
\* is the parser below: no text over them spells a literal, an array, a
\* comma, a sign or an escape.
\* ---------------------------------------------------------------------------

\* Largest number of pieces a provider output is put together from.
MaxPieces == 4

Quote == "\""
\* The backtick character (U+0060).
Backtick == "<backtick>"
Fence == <<Backtick, Backtick, Backtick>>
JsonWord == <<"j", "s", "o", "n">>
TopicsKey == <<"t", "o", "p", "i", "c", "s">>
RawKey == <<"r", "a", "w">>

\* The pieces of a provider output.
Pieces == {Fence, JsonWord, <<Backtick>>, <<" ">>, <<"{">>, <<"}">>, <<"1">>, <<"x">>,
           <<Quote>>, <<Quote>> \o TopicsKey \o <<Quote, ":">>}

RECURSIVE Concat(_)
Concat(ps) == IF ps = <<>> THEN <<>> ELSE Head(ps) \o Concat(Tail(ps))

RawTexts == {Concat(ps) : ps \in UNION {[1..n -> Pieces] : n \in 0..MaxPieces}}

\* t[i:].startswith(p)
IsPrefixAt(t, i, p) == i + Len(p) - 1 <= Len(t) /\ SubSeq(t, i, i + Len(p) - 1) = p

\* The end of a run of whitespace that starts at i (\s* of re, _w of json).
RECURSIVE SkipSpaces(_, _)
SkipSpaces(t, i) == IF i <= Len(t) /\ IsSpace(t[i]) THEN SkipSpaces(t, i + 1) ELSE i

\* re.sub(FENCE + r"(?:json)?\s*", "", t) from position i on, FENCE being
\* three backticks.
RECURSIVE re_sub_fences(_, _)
re_sub_fences(t, i) ==
    IF i > Len(t) THEN <<>>
    ELSE IF IsPrefixAt(t, i, Fence)
         THEN re_sub_fences(t, SkipSpaces(t, IF IsPrefixAt(t, i + 3, JsonWord)
                                             THEN i + 7 ELSE i + 3))
         ELSE <<t[i]>> \o re_sub_fences(t, i + 1)

\* str.rstrip(BACKTICK)
RECURSIVE rstrip_backticks(_)
rstrip_backticks(t) ==
    IF t # <<>> /\ t[Len(t)] = Backtick THEN rstrip_backticks(SubSeq(t, 1, Len(t) - 1)) ELSE t

\* Values of json.loads: a dict, a str, an int; JEmptyList is the default []
\* of dict.get and JNone stands for "no value".
JNone == [type |-> "none", text |-> <<>>, n |-> 0, members |-> <<>>]
JEmptyList == [type |-> "list", text |-> <<>>, n |-> 0, members |-> <<>>]
JStr(t) == [type |-> "str", text |-> t, n |-> 0, members |-> <<>>]
JInt(n) == [type |-> "int", text |-> <<>>, n |-> n, members |-> <<>>]
JDict(members) == [type |-> "dict", text |-> <<>>, n |-> 0, members |-> members]

\* What a scanner returns: the value and the index after it, or an error.
Scanned(value, end) == [ok |-> TRUE, value |-> value, end |-> end]
Bad == [ok |-> FALSE, value |-> JNone, end |-> 0]

\* Characters a JSON string may not hold unescaped.
ControlChars == {"\n", "\t"}

\* py_scanstring(s, i): i is the index after the opening quote.
RECURSIVE scanstring(_, _, _)
scanstring(s, i, acc) ==
    IF i > Len(s) THEN Bad
    ELSE IF s[i] = Quote THEN Scanned(JStr(acc), i + 1)
    ELSE IF s[i] \in ControlChars THEN Bad
    ELSE scanstring(s, i + 1, Append(acc, s[i]))

\* Length of the run of digits at i, and the integer a run of k ones denotes.
RECURSIVE DigitRun(_, _)
DigitRun(s, i) == IF i <= Len(s) /\ s[i] = "1" THEN 1 + DigitRun(s, i + 1) ELSE 0

RECURSIVE Ones(_)
Ones(k) == IF k = 0 THEN 0 ELSE 10 * Ones(k - 1) + 1

\* scan_once(s, i) and JSONObject(s, i), i being the index after the brace.
RECURSIVE scan_once(_, _), JSONObject(_, _)
scan_once(s, i) ==
    IF i > Len(s) THEN Bad
    ELSE IF s[i] = Quote THEN scanstring(s, i + 1, <<>>)
    ELSE IF s[i] = "{" THEN JSONObject(s, i + 1)
    ELSE IF s[i] = "1" THEN Scanned(JInt(Ones(DigitRun(s, i))), i + DigitRun(s, i))
    ELSE Bad

JSONObject(s, i) ==
    LET a == SkipSpaces(s, i)
        key == scanstring(s, a + 1, <<>>)
        c == SkipSpaces(s, key.end)
        v == scan_once(s, SkipSpaces(s, c + 1))
        e == SkipSpaces(s, v.end)
    IN  IF a > Len(s) THEN Bad
        ELSE IF s[a] = "}" THEN Scanned(JDict(<<>>), a + 1)
        ELSE IF s[a] # Quote \/ ~key.ok THEN Bad
        ELSE IF c > Len(s) \/ s[c] # ":" THEN Bad
        ELSE IF ~v.ok THEN Bad
        ELSE IF e <= Len(s) /\ s[e] = "}"
             THEN Scanned(JDict(<<[key |-> key.value.text, value |-> v.value]>>), e + 1)
        ELSE Bad

\* json.loads(s): one value between whitespace; ok is FALSE where it raises
\* JSONDecodeError.
json_loads(s) ==
    LET r == scan_once(s, SkipSpaces(s, 1))
    IN  IF r.ok /\ SkipSpaces(s, r.end) > Len(s)
        THEN [ok |-> TRUE, value |-> r.value]
        ELSE [ok |-> FALSE, value |-> JNone]

\* re.search(r"\{.*\}", t, re.DOTALL).group(): from the first { to the last }
\* after it; the empty text when there is no match.
re_search_braces(t) ==
    LET opens == {i \in 1..Len(t) : t[i] = "{"}
        first == CHOOSE i \in opens : \A j \in opens : i <= j
        closes == {i \in 1..Len(t) : t[i] = "}" /\ i > first}
        last == CHOOSE i \in closes : \A j \in closes : j <= i
    IN  IF opens = {} THEN <<>>
        ELSE IF closes = {} THEN <<>>
        ELSE SubSeq(t, first, last)

\* The cleaned text of _parse_json_response.
cleaned_text(raw) == strip(rstrip_backticks(strip(re_sub_fences(raw, 1))))

\* What a call returns: the value, or raised = TRUE when an exception leaves it.
Parsed(raised, value) == [raised |-> raised, value |-> value]

\* _parse_json_response that looks at the text as it is: no fence is
\* stripped.
_parse_json_response_keeping_fences(raw) ==
    LET first == json_loads(raw)
    IN  IF first.ok THEN Parsed(FALSE, first.value)
        ELSE Parsed(FALSE, JDict(<<[key |-> RawKey, value |-> JStr(raw)]>>))

\* _parse_json_response(raw)
_parse_json_response(raw) ==
    LET cleaned == cleaned_text(raw)
        first == json_loads(cleaned)
        match == re_search_braces(cleaned)
        second == json_loads(match)
    IN  IF first.ok THEN Parsed(FALSE, first.value)
        ELSE IF match # <<>> THEN Parsed(~second.ok, second.value)
        ELSE Parsed(FALSE, JDict(<<[key |-> RawKey, value |-> JStr(raw)]>>))

\* parsed.get(key, []) on a dict.
dict_get(parsed, key) ==
    LET hits == {i \in 1..Len(parsed.members) : parsed.members[i].key = key}
    IN  IF hits = {} THEN JEmptyList ELSE parsed.members[CHOOSE i \in hits : TRUE].value

\* One call of _parse_json_response on a provider output.
ParseResponse ==
    /\ call = NoCall
    /\ \E raw \in RawTexts :
           call' = [fn |-> "parse_json_response", raw |-> raw,
                    out |-> _parse_json_response(raw)]
    /\ UNCHANGED <<tasks, phase, regVars, lastSwitch, documents, llm_cache, saves,
                   stream, workers, prev, resp>>

\* Texts a JSON string may hold between its quotes.
StringPieces == Pieces \ {<<Quote>>, <<Quote>> \o TopicsKey \o <<Quote, ":">>}
StringContents == {Concat(ps) : ps \in UNION {[1..n -> StringPieces] : n \in 0..MaxPieces}}

\* JSON object texts: the provider outputs that are one, and {"topics":"c"}
\* for every string content c.
ObjectTexts ==
    {t \in RawTexts : json_loads(t).ok /\ json_loads(t).value.type = "dict"}
    \cup {<<"{", Quote>> \o TopicsKey \o <<Quote, ":", Quote>> \o c \o <<Quote, "}">> :
              c \in StringContents}

\* The ways a model wraps its answer in a code fence: <<before, after>>.
FenceWrappers == {<<Fence \o JsonWord \o <<"\n">>, <<"\n">> \o Fence>>,
                  <<Fence \o JsonWord, Fence>>,
                  <<Fence \o <<"\n">>, <<"\n">> \o Fence>>,
                  <<Fence \o JsonWord \o <<" ">>, <<" ">> \o Fence \o <<"\n">>>>}

\* _parse_json_response on a JSON object text, as it is and inside a fence.
ParseFenced ==
    /\ call = NoCall
    /\ \E j \in ObjectTexts, f \in FenceWrappers :
           call' = [fn |-> "fenced", j |-> j, wrapped |-> f[1] \o j \o f[2],
                    plain |-> _parse_json_response(j),
                    out |-> _parse_json_response(f[1] \o j \o f[2])]
    /\ UNCHANGED <<tasks, phase, regVars, lastSwitch, documents, llm_cache, saves,
                   stream, workers, prev, resp>>

\* ---------------------------------------------------------------------------
\* Cached requests (routers/ask.py, routers/summarize.py)
\* ---------------------------------------------------------------------------

MAX_CHARS == 24000

\* MAX_CHARS of routers/highlights.py
HIGHLIGHTS_MAX_CHARS == 24000

TaskHighlights == <<"h", "i", "g", "h", "l", "i", "g", "h", "t", "s">>

Max(a, b) == IF a >= b THEN a ELSE b

\* A text handed to a prompt builder is a sequence of parts: Slice(a, b) is
\* text[a:b] of the full text of the document, Marker the line that stands
\* for the middle that was cut out.
Slice(a, b) == <<"text", a, b>>
Marker == <<"marker", 0, 0>>

\* The truncation block with half = MAX_CHARS: the budget is not halved.
truncate_text_whole_budget(len, max_chars) ==
    IF len > max_chars
    THEN [text |-> <<Slice(0, Min(max_chars, len)), Marker,
                     Slice(Max(len - max_chars, 0), len)>>,
          truncated |-> TRUE]
    ELSE [text |-> <<Slice(0, len)>>, truncated |-> FALSE]

\* The truncation block of summarize and highlights on a text of `len`
\* characters: text[:half] + marker + text[-half:] with half = MAX_CHARS // 2.
truncate_text(len, max_chars) ==
    IF len > max_chars
    THEN [text |-> <<Slice(0, Min(max_chars \div 2, len)), Marker,
                     Slice(Max(len - max_chars \div 2, 0), len)>>,
          truncated |-> TRUE]
    ELSE [text |-> <<Slice(0, len)>>, truncated |-> FALSE]

\* The adapter get_provider() would return now, and its model.
ActiveRef == instance_cache[InstanceKey(active_name, active_model)]
ActiveModelNow == adapters[ActiveRef].active_model

\* llm_service.generate(prompt): get_provider(), then generate on the adapter
\* it returned; `out` is what the backend does with the call.
llm_generate(out) ==
    LET r == get_provider(active_name, active_model, instance_cache, adapters, builds)
    IN  [reg |-> r,
         ok |-> r.ok /\ out # Raise,
         text |-> out,
         model |-> IF r.ok THEN r.adapters[r.ref].active_model ELSE NoneVal]

\* What a handler leaves behind: its response, the cache table, the record of
\* saves, the registry, and the call of a prompt builder it made on the
\* source text (NoCall when it made none).
Outcome(r, cache, sv, reg) ==
    [resp |-> r, cache |-> cache, saves |-> sv, reg |-> reg, call |-> NoCall]

\* The handler built its prompt from `text`.
Prompted(o, fn, document_id, text) ==
    [o EXCEPT !.call = [fn |-> fn, document_id |-> document_id, text |-> text]]

RegNow == RegResult(TRUE, NoneVal, NoRef, active_name, active_model,
                    instance_cache, adapters, builds)

\* The check that answers 404 for a document that is not ready.
ReadyCheck_not_found_only(doc_id) ==
    IF doc_id \notin DOMAIN documents THEN 404
    ELSE IF documents[doc_id].status # "ready" THEN 404
    ELSE 0

\* _get_ready_doc / the first lines of summarize and highlights: 0 when the
\* document is ready, else the status code of the HTTPException.
ReadyCheck(doc_id) ==
    IF doc_id \notin DOMAIN documents THEN 404
    ELSE IF documents[doc_id].status # "ready" THEN 409
    ELSE 0

Fail(op, status, doc_id, extra, generated, reg) ==
    Outcome(DocResponse(op, status, doc_id, extra, NoResult, generated, NoneVal),
            llm_cache, saves, reg)

\* {**cached, "cached": True}
Hit(op, doc_id, extra, cached) ==
    Outcome(DocResponse(op, 200, doc_id, extra, [cached EXCEPT !.cached = TRUE],
                        FALSE, ActiveModelNow),
            llm_cache, saves, RegNow)

Saved(sv, key, result) ==
    IF key \in DOMAIN sv THEN [sv EXCEPT ![key] = Append(@, result)]
    ELSE sv @@ (key :> <<result>>)

\* The tail shared by the handlers: save_cached_result and return result.
Store(op, doc_id, task, extra, result, g) ==
    Outcome(DocResponse(op, 200, doc_id, extra, result, TRUE, g.model),
            save_cached_result(llm_cache, doc_id, task, result, extra, <<>>, g.model),
            Saved(saves, cache_key(doc_id, task, extra, <<>>), result),
            g.reg)

\* ask() that hands an empty chunk list to the prompt.
ask_without_chunk_check(document_id, question, out) ==
    LET check  == ReadyCheck(document_id)
        cached == get_cached_result(llm_cache, document_id, TaskAsk, question, <<>>)
        nchunks == RetrievedCount(documents[document_id].nchunks)
        g == llm_generate(out)
    IN  IF check # 0 THEN Fail("ask", check, document_id, question, FALSE, RegNow)
        ELSE IF cached # NoResult THEN Hit("ask", document_id, question, cached)
        ELSE IF ~g.ok THEN Fail("ask", 500, document_id, question, g.reg.ok, g.reg)
        ELSE Store("ask", document_id, TaskAsk, question,
                   [document_id |-> document_id, question |-> question,
                    answer |-> strip(g.text), sources_used |-> nchunks,
                    cached |-> FALSE], g)

\* POST /api/ask with body (document_id, question).
ask(document_id, question, out) ==
    LET check  == ReadyCheck(document_id)
        cached == get_cached_result(llm_cache, document_id, TaskAsk, question, <<>>)
        nchunks == RetrievedCount(documents[document_id].nchunks)
        g == llm_generate(out)
    IN  IF check # 0 THEN Fail("ask", check, document_id, question, FALSE, RegNow)
        ELSE IF cached # NoResult THEN Hit("ask", document_id, question, cached)
        ELSE IF nchunks = 0 THEN Fail("ask", 422, document_id, question, FALSE, RegNow)
        ELSE IF ~g.ok THEN Fail("ask", 500, document_id, question, g.reg.ok, g.reg)
        ELSE Store("ask", document_id, TaskAsk, question,
                   [document_id |-> document_id, question |-> question,
                    answer |-> strip(g.text), sources_used |-> nchunks,
                    cached |-> FALSE], g)

\* summarize() that answers a failed generation with an empty summary and
\* stores it.
summarize_storing_failures(document_id, style, language, out) ==
    LET check  == ReadyCheck(document_id)
        cache_extra == style \o Colon \o language
        cached == get_cached_result(llm_cache, document_id, TaskSummarize, cache_extra, <<>>)
        len == documents[document_id].full_text_len
        tr == truncate_text(len, MAX_CHARS)
        g == llm_generate(out)
    IN  IF check # 0 THEN Fail("summarize", check, document_id, cache_extra, FALSE, RegNow)
        ELSE IF cached # NoResult THEN Hit("summarize", document_id, cache_extra, cached)
        ELSE IF len = 0 THEN Fail("summarize", 422, document_id, cache_extra, FALSE, RegNow)
        ELSE Prompted(
                 Store("summarize", document_id, TaskSummarize, cache_extra,
                       [document_id |-> document_id, style |-> style,
                        summary |-> IF g.ok THEN strip(g.text) ELSE <<>>,
                        truncated |-> tr.truncated, cached |-> FALSE], g),
                 "build_summary_prompt", document_id, tr.text)

\* POST /api/summarize with body (document_id, style, language).
summarize(document_id, style, language, out) ==
    LET check  == ReadyCheck(document_id)
        cache_extra == style \o Colon \o language
        cached == get_cached_result(llm_cache, document_id, TaskSummarize, cache_extra, <<>>)
        len == documents[document_id].full_text_len
        tr == truncate_text(len, MAX_CHARS)
        g == llm_generate(out)
    IN  IF check # 0 THEN Fail("summarize", check, document_id, cache_extra, FALSE, RegNow)
        ELSE IF cached # NoResult THEN Hit("summarize", document_id, cache_extra, cached)
        ELSE IF len = 0 THEN Fail("summarize", 422, document_id, cache_extra, FALSE, RegNow)
        ELSE Prompted(
                 IF ~g.ok
                 THEN Fail("summarize", 500, document_id, cache_extra, g.reg.ok, g.reg)
                 ELSE Store("summarize", document_id, TaskSummarize, cache_extra,
                            [document_id |-> document_id, style |-> style,
                             summary |-> strip(g.text), truncated |-> tr.truncated,
                             cached |-> FALSE], g),
                 "build_summary_prompt", document_id, tr.text)

\* Outcomes of the generation call of highlights: a fenced object with
\* topics, a text without JSON, braces around text that is not JSON, JSON
\* that is no object, or an exception.
HighlightOutputs ==
    {Fence \o JsonWord \o <<"\n", "{", Quote>> \o TopicsKey \o <<Quote, ":", Quote, "x", Quote, "}", "\n">>
         \o Fence,
     <<"x">>,
     <<"{", "x", "}">>,
     <<"1">>}
HighlightOutcomes == HighlightOutputs \cup {Raise}

\* POST /api/highlights with body (document_id, language).  An exception
\* that leaves _parse_json_response or parsed.get is answered with 500.
highlights(document_id, language, out) ==
    LET check  == ReadyCheck(document_id)
        cache_extra == language
        cached == get_cached_result(llm_cache, document_id, TaskHighlights, cache_extra, <<>>)
        len == documents[document_id].full_text_len
        tr == truncate_text(len, HIGHLIGHTS_MAX_CHARS)
        g == llm_generate(out)
        parsed == _parse_json_response(g.text)
    IN  IF check # 0 THEN Fail("highlights", check, document_id, cache_extra, FALSE, RegNow)
        ELSE IF cached # NoResult THEN Hit("highlights", document_id, cache_extra, cached)
        ELSE IF len = 0 THEN Fail("highlights", 422, document_id, cache_extra, FALSE, RegNow)
        ELSE Prompted(
                 IF ~g.ok
                 THEN Fail("highlights", 500, document_id, cache_extra, g.reg.ok, g.reg)
                 ELSE IF parsed.raised \/ parsed.value.type # "dict"
                 THEN Fail("highlights", 500, document_id, cache_extra, TRUE, g.reg)
                 ELSE Store("highlights", document_id, TaskHighlights, cache_extra,
                            [document_id |-> document_id,
                             key_concepts |-> dict_get(parsed.value, <<"k", "e", "y", "_", "c", "o", "n", "c", "e", "p", "t", "s">>),
                             key_sentences |-> dict_get(parsed.value, <<"k", "e", "y", "_", "s", "e", "n", "t", "e", "n", "c", "e", "s">>),
                             topics |-> dict_get(parsed.value, TopicsKey),
                             truncated |-> tr.truncated,
                             cached |-> FALSE], g),
                 "build_highlights_prompt", document_id, tr.text)

Apply(o) ==
    /\ SetRegistry(o.reg)
    /\ llm_cache' = o.cache
    /\ saves' = o.saves
    /\ Respond(o.resp)
    /\ call' = o.call
    /\ UNCHANGED <<tasks, phase, lastSwitch, documents, stream, workers>>

Ask ==
    /\ phase = "serving"
    /\ Len(adapters) < MaxObjects
    /\ \E d \in DocIds, q \in Questions, out \in GenerateOutcomes : Apply(ask(d, q, out))

Summarize ==
    /\ phase = "serving"
    /\ Len(adapters) < MaxObjects
    /\ \E d \in DocIds, st \in Styles, la \in Languages, out \in GenerateOutcomes :
           Apply(summarize(d, st, la, out))

Highlights ==
    /\ phase = "serving"
    /\ Len(adapters) < MaxObjects
    /\ \E d \in DocIds, la \in Languages, out \in HighlightOutcomes :
           Apply(highlights(d, la, out))

\* POST /api/providers/switch as the cache specification issues it: between
\* the default provider and one other, without a model override.
SwitchForCache == \E name \in {"ollama", "openai"} : switch_active_provider(name, NoneVal)

\* ---------------------------------------------------------------------------
\* Streaming answers (routers/ask.py ask_stream, providers/ollama.py)
\* ---------------------------------------------------------------------------

\* POST /api/ask/stream with body (document_id, question): the checks and the
\* retrieval run in the handler; the generator it returns has not started.
\* One stream is followed at a time.
ask_stream(document_id, question) ==
    LET check == ReadyCheck(document_id)
        status == IF check # 0 THEN check
                  ELSE IF RetrievedCount(documents[document_id].nchunks) = 0 THEN 422
                  ELSE 200
    IN  /\ stream.pc \in {"idle", "done", "error", "closed"}
        /\ stream' = IF status = 200
                     THEN [IdleStream EXCEPT !.pc = "open", !.doc_id = document_id,
                                             !.question = question]
                     ELSE stream
        /\ Respond(DocResponse("ask_stream", status, document_id, question,
                               NoResult, FALSE, NoneVal))

AskStream ==
    /\ phase = "serving"
    /\ \E d \in DocIds, q \in Questions : ask_stream(d, q)
    /\ UNCHANGED <<call, tasks, phase, regVars, lastSwitch, dbVars, workers>>

\* event_generator up to its first yield: the meta event.
StreamMeta ==
    /\ stream.pc = "open"
    /\ stream' = [stream EXCEPT !.pc = "meta"]
    /\ UNCHANGED <<call, tasks, phase, regVars, lastSwitch, dbVars, workers, prev, resp>>

\* The first step of `async for token in llm_service.stream_generate(prompt)`:
\* get_provider(), then adapter.stream_generate builds its payload from
\* self._model and posts it.
StreamDispatch ==
    /\ stream.pc = "meta"
    /\ Len(adapters) < MaxObjects
    /\ LET r == get_provider(active_name, active_model, instance_cache, adapters, builds)
       IN  /\ SetRegistry(r)
           /\ stream' = IF r.ok
                        THEN [stream EXCEPT
                                 !.pc = "streaming", !.ref = r.ref,
                                 !.identity = <<r.adapters[r.ref].provider_name,
                                                r.adapters[r.ref].active_model>>,
                                 !.payload_model = r.adapters[r.ref].active_model]
                        ELSE [stream EXCEPT !.pc = "error"]
    /\ UNCHANGED <<call, tasks, phase, lastSwitch, dbVars, workers, prev, resp>>

\* One fragment read from the backend's response and yielded as a token
\* event.  by is the adapter that reads the response, model the model the
\* backend was asked for, active_then the adapter that was active at the time.
StreamToken ==
    /\ stream.pc = "streaming"
    /\ Len(stream.tokens) < MaxTokens
    /\ stream' = [stream EXCEPT !.tokens =
                      Append(@, [by |-> stream.ref, model |-> stream.payload_model,
                                 active_then |-> ActiveRef])]
    /\ UNCHANGED <<call, tasks, phase, regVars, lastSwitch, dbVars, workers, prev, resp>>

\* The end of the stream with the joined answer written to the cache.
StreamDoneSaving ==
    /\ stream.pc = "streaming"
    /\ stream' = [stream EXCEPT !.pc = "done"]
    /\ LET result == [document_id |-> stream.doc_id, question |-> stream.question,
                      answer |-> <<"t">>, sources_used |-> 0, cached |-> FALSE]
       IN  /\ llm_cache' = save_cached_result(llm_cache, stream.doc_id, TaskAsk, result,
                                              stream.question, <<>>, stream.payload_model)
           /\ saves' = Saved(saves, cache_key(stream.doc_id, TaskAsk, stream.question, <<>>),
                             result)
    /\ UNCHANGED <<call, tasks, phase, regVars, lastSwitch, documents, workers, prev, resp>>

\* The backend ends the stream: the done event with the joined answer.
StreamDone ==
    /\ stream.pc = "streaming"
    /\ stream' = [stream EXCEPT !.pc = "done"]
    /\ UNCHANGED <<call, tasks, phase, regVars, lastSwitch, dbVars, workers, prev, resp>>

\* The adapter raises part-way: the error event, then return.
StreamFail ==
    /\ stream.pc = "streaming"
    /\ stream' = [stream EXCEPT !.pc = "error"]
    /\ UNCHANGED <<call, tasks, phase, regVars, lastSwitch, dbVars, workers, prev, resp>>

\* The client stops reading and the generator is closed at the yield it is
\* suspended in.
StreamAbandon ==
    /\ stream.pc \in {"meta", "streaming"}
    /\ stream' = [stream EXCEPT !.pc = "closed"]
    /\ UNCHANGED <<call, tasks, phase, regVars, lastSwitch, dbVars, workers, prev, resp>>

\* POST /api/providers/switch as the streaming specification issues it.
StreamSwitches == {<<"ollama", NoneVal>>, <<"ollama", "m1">>, <<"openai", NoneVal>>}
SwitchForStream == \E sw \in StreamSwitches : switch_active_provider(sw[1], sw[2])

\* ---------------------------------------------------------------------------
\* /api/ask served by several worker processes.  Each process runs the
\* handler in one piece, but the processes share only the database file, so
\* the handlers of two processes interleave between their database calls.
\* ---------------------------------------------------------------------------

Workers == 1..NumWorkers

IdleWorker == [pc |-> "idle", doc_id |-> <<>>, question |-> <<>>, answer |-> <<>>,
               status |-> 0, body |-> NoResult]

\* The model a worker's own registry serves with: its startup default.
WorkerModel == default_model(DefaultProvider)

\* ask() down to the cache lookup: _get_ready_doc and get_cached_result.
WorkerLookup(w) ==
    /\ workers[w].pc = "idle"
    /\ \E d \in DocIds, q \in Questions :
          LET check  == ReadyCheck(d)
              cached == get_cached_result(llm_cache, d, TaskAsk, q, <<>>)
          IN  workers' = [workers EXCEPT ![w] =
                  IF check # 0
                  THEN [IdleWorker EXCEPT !.doc_id = d, !.question = q, !.status = check]
                  ELSE IF cached # NoResult
                  THEN [IdleWorker EXCEPT !.doc_id = d, !.question = q, !.status = 200,
                                          !.body = [cached EXCEPT !.cached = TRUE]]
                  ELSE [IdleWorker EXCEPT !.pc = "missed", !.doc_id = d, !.question = q]]
    /\ UNCHANGED <<call, tasks, phase, regVars, lastSwitch, dbVars, stream, prev, resp>>

\* ask() from retrieve_relevant_chunks to the end of llm_service.generate.
WorkerGenerate(w) ==
    /\ workers[w].pc = "missed"
    /\ \E out \in GenerateOutcomes :
          LET nchunks == RetrievedCount(documents[workers[w].doc_id].nchunks)
          IN  workers' = [workers EXCEPT ![w] =
                  IF nchunks = 0 THEN [@ EXCEPT !.pc = "idle", !.status = 422]
                  ELSE IF out = Raise THEN [@ EXCEPT !.pc = "idle", !.status = 500]
                  ELSE [@ EXCEPT !.pc = "generated", !.answer = strip(out)]]
    /\ UNCHANGED <<call, tasks, phase, regVars, lastSwitch, dbVars, stream, prev, resp>>

\* ask() from the result dict to the return: save_cached_result.
WorkerSave(w) ==
    /\ workers[w].pc = "generated"
    /\ LET d == workers[w].doc_id
           q == workers[w].question
           result == [document_id |-> d, question |-> q, answer |-> workers[w].answer,
                      sources_used |-> RetrievedCount(documents[d].nchunks),
                      cached |-> FALSE]
       IN  /\ llm_cache' = save_cached_result(llm_cache, d, TaskAsk, result, q, <<>>,
                                              WorkerModel)
           /\ saves' = Saved(saves, cache_key(d, TaskAsk, q, <<>>), result)
           /\ workers' = [workers EXCEPT ![w] =
                              [@ EXCEPT !.pc = "idle", !.status = 200, !.body = result]]
    /\ UNCHANGED <<call, tasks, phase, regVars, lastSwitch, documents, stream, prev, resp>>

WorkerAskLookup   == \E w \in Workers : WorkerLookup(w)
WorkerAskGenerate == \E w \in Workers : WorkerGenerate(w)
WorkerAskSave     == \E w \in Workers : WorkerSave(w)

\* Every worker has run its startup event.
InitWorkers ==
    LET r == get_provider(NoneVal, NoneVal, <<>>, <<>>, <<>>)
    IN  /\ phase = "serving"
        /\ active_name = r.active_name
        /\ active_model = r.active_model
        /\ instance_cache = r.instance_cache
        /\ adapters = r.adapters
        /\ builds = r.builds
        /\ lastSwitch = NoSwitch
        /\ documents = <<>>
        /\ llm_cache = {}
        /\ saves = <<>>
        /\ stream = IdleStream
        /\ workers = [w \in Workers |-> IdleWorker]
        /\ prev = NoResponse
        /\ resp = NoResponse
        /\ call = NoCall
        /\ tasks = <<>>

\* ---------------------------------------------------------------------------
\* Chunking (services/rag_service.py)
\* ---------------------------------------------------------------------------

\* Longest text that is chunked.
MaxTextLen == 4

\* Characters of the texts that are chunked: a letter, a sentence end, a blank.
TextChars == {"a", ".", " "}

Texts == UNION {[1..n -> TextChars] : n \in 0..MaxTextLen}

\* rag.chunk_size and rag.chunk_overlap as the calls below pass them.
ChunkSizes == {2, 3}
Overlaps == {0, 2}

\* The characters of the lookbehind (?<=[.!?]).
SentenceEnd == {".", "!", "?"}

\* First position from i on that holds no whitespace (Len(t) + 1 if none).
RECURSIVE SkipSpace(_, _)
SkipSpace(t, i) == IF i <= Len(t) /\ IsSpace(t[i]) THEN SkipSpace(t, i + 1) ELSE i

\* re.split(r'(?<=[.!?])\s+', t) from position i on, cur being the piece
\* collected so far: a run of whitespace that follows a sentence end is
\* dropped and ends the piece.
RECURSIVE re_split(_, _, _)
re_split(t, i, cur) ==
    IF i > Len(t) THEN <<cur>>
    ELSE IF IsSpace(t[i]) /\ i > 1 /\ t[i - 1] \in SentenceEnd
    THEN <<cur>> \o re_split(t, SkipSpace(t, i), <<>>)
    ELSE re_split(t, i + 1, Append(cur, t[i]))

\* ' '.join(parts)
RECURSIVE join(_)
join(parts) ==
    IF parts = <<>> THEN <<>>
    ELSE IF Len(parts) = 1 THEN parts[1]
    ELSE parts[1] \o <<" ">> \o join(Tail(parts))

\* The loop `for s in reversed(current_chunk)`: the number of sentences at
\* the end of current_chunk that are carried over, k being the number taken
\* so far and len their total length.
RECURSIVE overlap_count(_, _, _, _)
overlap_count(current_chunk, k, len, overlap) ==
    IF k = Len(current_chunk) THEN k
    ELSE LET s == current_chunk[Len(current_chunk) - k]
         IN  IF len + Len(s) <= overlap
             THEN overlap_count(current_chunk, k + 1, len + Len(s), overlap)
             ELSE k

RECURSIVE total_len(_)
total_len(parts) == IF parts = <<>> THEN 0 ELSE Len(parts[1]) + total_len(Tail(parts))

\* The loop over the sentences of split_text.  st holds chunks (each chunk as
\* the sentences it is joined from, with the number of them carried over from
\* the chunk before), current_chunk, current_len, and the number of
\* sentences of current_chunk that were carried over.
RECURSIVE split_loop(_, _, _, _, _)
split_loop(sentences, i, st, chunk_size, overlap) ==
    IF i > Len(sentences) THEN st
    ELSE LET sentence == sentences[i]
             flush == st.current_len + Len(sentence) > chunk_size /\ st.current_chunk # <<>>
             k == overlap_count(st.current_chunk, 0, 0, overlap)
             kept == SubSeq(st.current_chunk, Len(st.current_chunk) - k + 1,
                            Len(st.current_chunk))
             flushed == IF flush
                        THEN [chunks |-> Append(st.chunks, [sentences |-> st.current_chunk,
                                                            carried |-> st.carried]),
                              current_chunk |-> kept, current_len |-> total_len(kept),
                              carried |-> k]
                        ELSE st
         IN  split_loop(sentences, i + 1,
                        [flushed EXCEPT !.current_chunk = Append(@, sentence),
                                        !.current_len = @ + Len(sentence)],
                        chunk_size, overlap)

\* split_text up to its return: the chunks as lists of sentences.
split_chunks(text, chunk_size, overlap) ==
    IF text = <<>> THEN <<>>
    ELSE LET sentences == re_split(strip(text), 1, <<>>)
             st == split_loop(sentences, 1,
                              [chunks |-> <<>>, current_chunk |-> <<>>,
                               current_len |-> 0, carried |-> 0],
                              chunk_size, overlap)
         IN  IF st.current_chunk # <<>>
             THEN Append(st.chunks, [sentences |-> st.current_chunk, carried |-> st.carried])
             ELSE st.chunks

\* split_text(text, chunk_size, overlap): the list of strings it returns.
split_text(text, chunk_size, overlap) ==
    LET chunks == split_chunks(text, chunk_size, overlap)
    IN  IF text = <<>> THEN <<>>
        ELSE IF chunks # <<>> THEN [i \in 1..Len(chunks) |-> join(chunks[i].sentences)]
        ELSE <<text>>

\* index_document's call of split_text on an extracted text; one call is
\* followed per run.
SplitText ==
    /\ call = NoCall
    /\ \E text \in Texts, chunk_size \in ChunkSizes, overlap \in Overlaps :
           call' = [fn |-> "split_text", text |-> text, chunk_size |-> chunk_size,
                    overlap |-> overlap,
                    chunks |-> split_chunks(text, chunk_size, overlap),
                    result |-> split_text(text, chunk_size, overlap)]
    /\ UNCHANGED <<phase, regVars, lastSwitch, dbVars, stream, workers, prev, resp, tasks>>

\* split_text_chars(text, chunk_size, overlap) up to its loop.  The overlaps
\* drawn are those up to chunk_size, for which start never becomes negative.
SplitTextChars ==
    /\ call = NoCall
    /\ \E text \in Texts, chunk_size \in 1..2, overlap \in 0..2 :
           /\ overlap <= chunk_size
           /\ call' = [fn |-> "split_text_chars", text |-> text,
                       chunk_size |-> chunk_size, overlap |-> overlap,
                       start |-> 0, chunks |-> <<>>,
                       pc |-> IF text = <<>> THEN "returned" ELSE "loop"]
    /\ UNCHANGED <<phase, regVars, lastSwitch, dbVars, stream, workers, prev, resp, tasks>>

\* One test of `while start < len(text)` and, when it holds, one pass
\* through the body.  chunks is followed up to Len(text) + 1 entries, which
\* is more than a loop that advances can append.
SplitTextCharsLoop ==
    /\ call.fn = "split_text_chars"
    /\ call.pc = "loop"
    /\ LET end == call.start + call.chunk_size
           chunk == SubSeq(call.text, call.start + 1, Min(end, Len(call.text)))
           appended == IF Len(call.chunks) <= Len(call.text)
                       THEN Append(call.chunks, chunk) ELSE call.chunks
       IN  call' = IF call.start >= Len(call.text)
                   THEN [call EXCEPT !.pc = "returned"]
                   ELSE IF end >= Len(call.text)
                   THEN [call EXCEPT !.chunks = appended, !.pc = "returned"]
                   ELSE [call EXCEPT !.chunks = appended,
                                     !.start = @ + call.chunk_size - call.overlap]
    /\ UNCHANGED <<phase, regVars, lastSwitch, dbVars, stream, workers, prev, resp, tasks>>

\* ---------------------------------------------------------------------------
\* Retrieval (services/rag_service.py, database.py)
\* ---------------------------------------------------------------------------

\* Most chunks a document is stored with.
MaxChunks == 3

\* Contents of stored chunks; two chunks may hold the same text.
ChunkTexts == {"x", "y"}

\* document_chunks of one document as get_document_chunks returns them:
\* ORDER BY chunk_index, so position i holds the chunk of index i - 1.
ChunkLists == UNION {[1..n -> ChunkTexts] : n \in 0..MaxChunks}

\* Embedding vectors, of the stored chunks and of questions.
Vectors == {<<1, 0>>, <<0, 1>>, <<-1, 0>>, <<1, 1>>, <<0, 0>>}

\* embed_texts returned None: sentence-transformers is missing.
NoEmbedding == <<>>

\* embed_texts([question])[0], or None.
QueryEmbeddings == {NoEmbedding, <<1, 0>>, <<1, 1>>, <<0, 0>>}

\* The top_k argument left out: None.
NoTopK == -1

\* The top_k argument: left out, or an integer the caller supplies.
TopKArgs == {NoTopK, 0, 1, 2}

\* get_embeddings_for_doc: the (content, embedding) rows of the chunks that
\* have an embedding, ORDER BY chunk_index.  index_document stores either an
\* embedding for every chunk or none.
StoredFor(chunks) ==
    {<<>>} \cup {[i \in 1..Len(chunks) |-> [content |-> chunks[i], embedding |-> e[i]]] :
                     e \in [1..Len(chunks) -> Vectors]}

\* sum(x * y for x, y in zip(a, b)) for vectors of two components.
Dot(a, b) == a[1] * b[1] + a[2] * b[2]

\* _cosine that divides by the squared norm of its first argument.
_cosine_by_first_norm(a, b) ==
    LET dot == Dot(a, b)
        na == Dot(a, a)
        nb == Dot(b, b)
    IN  IF na = 0 \/ nb = 0 THEN 0
        ELSE IF dot >= 0 THEN (4 * dot * dot) \div (na * na)
        ELSE 0 - ((4 * dot * dot) \div (na * na))

\* _cosine(a, b).  The value is kept as 4 * cos * |cos|, which orders as the
\* cosine does and is an integer for the vectors above (their squared norms
\* are 0, 1 or 2); 0 when a norm is 0.
_cosine(a, b) ==
    LET dot == Dot(a, b)
        na == Dot(a, a)
        nb == Dot(b, b)
    IN  IF na = 0 \/ nb = 0 THEN 0
        ELSE IF dot >= 0 THEN (4 * dot * dot) \div (na * nb)
        ELSE 0 - ((4 * dot * dot) \div (na * nb))

\* One step of the stable sort: p goes behind every position whose score is
\* at least its own.
RECURSIVE insert_desc(_, _, _)
insert_desc(sorted, p, score) ==
    IF sorted = <<>> THEN <<p>>
    ELSE IF score[Head(sorted)] >= score[p]
    THEN <<Head(sorted)>> \o insert_desc(Tail(sorted), p, score)
    ELSE <<p>> \o sorted

RECURSIVE insert_asc(_, _, _)
insert_asc(sorted, p, score) ==
    IF sorted = <<>> THEN <<p>>
    ELSE IF score[Head(sorted)] <= score[p]
    THEN <<Head(sorted)>> \o insert_asc(Tail(sorted), p, score)
    ELSE <<p>> \o sorted

RECURSIVE sort_asc(_, _)
sort_asc(n, score) == IF n = 0 THEN <<>> ELSE insert_asc(sort_asc(n - 1, score), n, score)

\* The sort written as an ascending sort followed by a reversal.
sort_by_score_reversing(n, score) ==
    LET asc == sort_asc(n, score)
    IN  [i \in 1..n |-> asc[n + 1 - i]]

\* scored.sort(key=lambda x: x[1], reverse=True) on the positions 1..n: list.sort
\* is stable, also with reverse=True.
RECURSIVE sort_by_score(_, _)
sort_by_score(n, score) ==
    IF n = 0 THEN <<>> ELSE insert_desc(sort_by_score(n - 1, score), n, score)

\* seq[:k] for k >= 0
Take(seq, k) == SubSeq(seq, 1, Min(k, Len(seq)))

\* retrieve_relevant_chunks(doc_id, question, top_k) on a document whose
\* chunks and stored embeddings are `chunks` and `stored`, q_emb being what
\* embed_texts([question]) returns.  texts is the list it returns; order
\* names the positions the texts were taken from.  `top_k or cfg.top_k`
\* takes the configured value for None and for 0 alike.
retrieve_relevant_chunks(chunks, stored, q_emb, top_k_arg) ==
    LET k == IF top_k_arg # NoTopK /\ top_k_arg # 0 THEN top_k_arg ELSE top_k
        score == [i \in 1..Len(stored) |-> _cosine(q_emb, stored[i].embedding)]
        order == IF stored = <<>> \/ q_emb = NoEmbedding THEN Take([i \in 1..Len(chunks) |-> i], k)
                 ELSE Take(sort_by_score(Len(stored), score), k)
    IN  [k |-> k,
         ranked |-> stored # <<>> /\ q_emb # NoEmbedding,
         order |-> order,
         score |-> IF stored # <<>> /\ q_emb # NoEmbedding THEN score ELSE <<>>,
         texts |-> IF stored = <<>> \/ q_emb = NoEmbedding
                   THEN [i \in 1..Len(order) |-> chunks[order[i]]]
                   ELSE [i \in 1..Len(order) |-> stored[order[i]].content]]

\* A call of retrieve_relevant_chunks on some stored document; one call is
\* followed per run.
Retrieve ==
    /\ call = NoCall
    /\ \E chunks \in ChunkLists, q_emb \in QueryEmbeddings, top_k_arg \in TopKArgs :
         \E stored \in StoredFor(chunks) :
           call' = [fn |-> "retrieve", chunks |-> chunks, stored |-> stored,
                    q_emb |-> q_emb, top_k |-> top_k_arg,
                    out |-> retrieve_relevant_chunks(chunks, stored, q_emb, top_k_arg)]
    /\ UNCHANGED <<phase, regVars, lastSwitch, dbVars, stream, workers, prev, resp, tasks>>

\* One score computed for a pair of vectors, in both orders.
Cosine ==
    /\ call = NoCall
    /\ \E a \in Vectors, b \in Vectors :
           call' = [fn |-> "_cosine", a |-> a, b |-> b,
                    ab |-> _cosine(a, b), ba |-> _cosine(b, a)]
    /\ UNCHANGED <<phase, regVars, lastSwitch, dbVars, stream, workers, prev, resp, tasks>>

\* ---------------------------------------------------------------------------
\* Ingestion as the database sees it (routers/upload.py, database.py).  Every
\* update_document_status is a committed transaction of its own, so the
\* other worker processes, which share the database file, see the document
\* between the steps of _process_document.
\* ---------------------------------------------------------------------------

\* _process_document up to db.update_document_status(doc_id, "processing").
process_begin ==
    /\ \E d \in DOMAIN documents \ DOMAIN tasks :
           /\ documents[d].status = "pending"
           /\ documents' = [documents EXCEPT ![d].status = "processing"]
           /\ tasks' = tasks @@ (d :> [pc |-> "extracting"])
    /\ UNCHANGED <<phase, regVars, lastSwitch, llm_cache, saves, stream, workers,
                   prev, resp, call>>

\* extract_text and count_tokens: they raise and the except branch stores
\* error, or the status is updated to ready.
process_extract ==
    /\ \E d \in DOMAIN tasks, ok \in BOOLEAN :
           /\ tasks[d].pc = "extracting"
           /\ documents' = [documents EXCEPT ![d].status = IF ok THEN "ready" ELSE "error"]
           /\ tasks' = [tasks EXCEPT ![d].pc = IF ok THEN "indexing" ELSE "finished"]
    /\ UNCHANGED <<phase, regVars, lastSwitch, llm_cache, saves, stream, workers,
                   prev, resp, call>>

\* index_document(doc_id, text): the chunks are saved and embedded, or it
\* raises before or after save_chunks and the except branch stores error.
process_index ==
    /\ \E d \in DOMAIN tasks, c \in DocContents,
          outcome \in {"indexed", "fails_before_save", "fails_after_save"} :
           /\ tasks[d].pc = "indexing"
           /\ documents' = [documents EXCEPT ![d] =
                  [status |-> IF outcome = "indexed" THEN @.status ELSE "error",
                   nchunks |-> IF outcome = "fails_before_save" THEN @.nchunks ELSE c.nchunks,
                   full_text_len |-> IF outcome = "fails_before_save" THEN @.full_text_len
                                     ELSE c.full_text_len]]
           /\ tasks' = [tasks EXCEPT ![d].pc = "finished"]
    /\ UNCHANGED <<phase, regVars, lastSwitch, llm_cache, saves, stream, workers,
                   prev, resp, call>>

\* ---------------------------------------------------------------------------
\* The adapters (services/providers/*.py)
\* ---------------------------------------------------------------------------

HttpAdapters == {"OllamaProvider", "OpenAICompatibleProvider", "TextGenWebUIProvider"}
SdkAdapters == {"OpenAIProvider", "AnthropicProvider"}
Adapters == HttpAdapters \cup SdkAdapters

\* What a call meets: whether the vendor SDK can be imported, and what the
\* backend does with the request.
Environments == [sdk : BOOLEAN, backend : {"ok", "unreachable", "http_error", "bad_body"}]

\* The model list of a backend that answers: one chat model.
ServerModels == <<"gpt-4o">>

\* The list in the except branch of OpenAIProvider.get_models.
OpenAIFallbackModels ==
    <<"gpt-4o", "gpt-4o-mini", "gpt-4-turbo", "gpt-3.5-turbo", "o1", "o1-mini", "o3-mini">>

_ANTHROPIC_MODELS ==
    <<"claude-opus-4-6", "claude-sonnet-4-6", "claude-haiku-4-5-20251001",
      "claude-sonnet-4-5-20250514", "claude-3-5-sonnet-20241022",
      "claude-3-5-haiku-20241022", "claude-3-opus-20240229">>

\* get_models() of an adapter of class cls.  Every body but Anthropic's is
\* inside try/except Exception, so nothing is raised.
get_models(cls, env) ==
    CASE cls \in HttpAdapters ->
             [raised |-> FALSE, models |-> IF env.backend = "ok" THEN ServerModels ELSE <<>>]
      [] cls = "OpenAIProvider" ->
             [raised |-> FALSE,
              models |-> IF env.sdk /\ env.backend = "ok" THEN ServerModels
                         ELSE OpenAIFallbackModels]
      [] cls = "AnthropicProvider" ->
             [raised |-> FALSE, models |-> _ANTHROPIC_MODELS]

\* One call of get_models; one call is followed per run.
GetModels ==
    /\ call = NoCall
    /\ \E cls \in Adapters, env \in Environments :
           call' = [fn |-> "get_models", cls |-> cls, env |-> env,
                    out |-> get_models(cls, env)]
    /\ UNCHANGED <<phase, regVars, lastSwitch, dbVars, stream, workers, prev, resp, tasks>>

\* The generation options, and llm.generation of config.py with the two
\* fractions in tenths.
Options == {"temperature", "max_tokens", "top_p"}
GenerationDefaults == [temperature |-> 2, max_tokens |-> 4096, top_p |-> 9]

\* Keyword arguments of a call: a value for some of the options.
Overrides == UNION {[given -> {1, 5}] : given \in SUBSET Options}

\* The options in the request an adapter sends, under the names of the
\* options (Ollama sends max_tokens as num_predict, text-generation-webui
\* as max_new_tokens): kwargs.get(option, self._gen.option).
request_options(cls, kwargs) ==
    LET sent == IF cls = "AnthropicProvider" THEN {"temperature", "max_tokens"}
                ELSE Options
    IN  [o \in sent |-> IF o \in DOMAIN kwargs THEN kwargs[o] ELSE GenerationDefaults[o]]

\* One generate or stream_generate call up to the request it sends.
SendRequest ==
    /\ call = NoCall
    /\ \E cls \in Adapters, op \in {"generate", "stream_generate"}, kwargs \in Overrides :
           call' = [fn |-> "request", cls |-> cls, op |-> op, kwargs |-> kwargs,
                    options |-> request_options(cls, kwargs)]
    /\ UNCHANGED <<phase, regVars, lastSwitch, dbVars, stream, workers, prev, resp, tasks>>

\* Most lines a backend sends in one streamed response.
MaxLines == 3

\* A line of a streamed response, by what the adapter makes of it.  kind is
\*   "blank"      an empty line, or one without the data: prefix
\*   "sentinel"   data: [DONE]
\*   "invalid"    json.loads raises JSONDecodeError
\*   "no_choices" / "empty_choices"   an object that raises KeyError / IndexError
\*   "not_object" valid JSON that is no object (a number, a string, a list)
\*   "bad_choice" an object whose choices[0] or delta is no object
\*   "object"     an object with the fragment text (empty when absent)
\*                and, for Ollama, the flag done
Line(kind, text, done) == [kind |-> kind, text |-> text, done |-> done]

OllamaLines ==
    {Line(k, "", FALSE) : k \in {"blank", "invalid", "not_object"}}
    \cup {Line("object", t, d) : t \in {"", "a", "b"}, d \in BOOLEAN}

OpenAILines ==
    {Line(k, "", FALSE) : k \in {"blank", "sentinel", "invalid", "no_choices",
                                  "empty_choices", "not_object", "bad_choice"}}
    \cup {Line("object", t, FALSE) : t \in {"", "a", "b"}}

\* A generator over the lines of a response: pos lines were read, yielded
\* are the fragments it has produced, pc is "reading", "ended" or "raised".
Generator(fn, lines) ==
    [fn |-> fn, lines |-> lines, pos |-> 0, yielded |-> <<>>, pc |-> "reading"]

\* The loop of OllamaProvider.stream_generate that reads on after done.
ollama_stream_line_ignoring_done(g) ==
    IF g.pos = Len(g.lines) THEN [g EXCEPT !.pc = "ended"]
    ELSE LET line == g.lines[g.pos + 1]
             read == [g EXCEPT !.pos = @ + 1]
         IN  IF line.kind \in {"blank", "invalid"} THEN read
             ELSE IF line.kind = "not_object" THEN [read EXCEPT !.pc = "raised"]
             ELSE [read EXCEPT !.yielded = IF line.text # "" THEN Append(@, line.text) ELSE @]

\* One pass of `async for line in resp.aiter_lines()` in
\* OllamaProvider.stream_generate: the next line is read, or the lines have
\* ended.  data.get on a value that is no dict raises AttributeError, which
\* the except clause does not catch.
ollama_stream_line(g) ==
    IF g.pos = Len(g.lines) THEN [g EXCEPT !.pc = "ended"]
    ELSE LET line == g.lines[g.pos + 1]
             read == [g EXCEPT !.pos = @ + 1]
         IN  IF line.kind \in {"blank", "invalid"} THEN read
             ELSE IF line.kind = "not_object" THEN [read EXCEPT !.pc = "raised"]
             ELSE [read EXCEPT !.yielded = IF line.text # "" THEN Append(@, line.text) ELSE @,
                               !.pc = IF line.done THEN "ended" ELSE @]

\* One pass of the loop of OpenAICompatibleProvider.stream_generate.
\* JSONDecodeError, KeyError and IndexError are caught; the TypeError of
\* data["choices"] on a value that is no object and the AttributeError of
\* .get on a choice or delta that is no object are not.
openai_stream_line(g) ==
    IF g.pos = Len(g.lines) THEN [g EXCEPT !.pc = "ended"]
    ELSE LET line == g.lines[g.pos + 1]
             read == [g EXCEPT !.pos = @ + 1]
         IN  IF line.kind = "blank" THEN read
             ELSE IF line.kind = "sentinel" THEN [read EXCEPT !.pc = "ended"]
             ELSE IF line.kind \in {"invalid", "no_choices", "empty_choices"} THEN read
             ELSE IF line.kind \in {"not_object", "bad_choice"}
             THEN [read EXCEPT !.pc = "raised"]
             ELSE [read EXCEPT !.yielded = IF line.text # "" THEN Append(@, line.text) ELSE @]

\* stream_generate of the two HTTP adapters up to the response: the backend
\* answers with some lines.
OllamaStreamOpen ==
    /\ call = NoCall
    /\ \E lines \in UNION {[1..n -> OllamaLines] : n \in 0..MaxLines} :
           call' = Generator("ollama_stream", lines)
    /\ UNCHANGED <<phase, regVars, lastSwitch, dbVars, stream, workers, prev, resp, tasks>>

OpenAIStreamOpen ==
    /\ call = NoCall
    /\ \E lines \in UNION {[1..n -> OpenAILines] : n \in 0..MaxLines} :
           call' = Generator("openai_stream", lines)
    /\ UNCHANGED <<phase, regVars, lastSwitch, dbVars, stream, workers, prev, resp, tasks>>

\* The consumer asks the generator for its next fragment.
OllamaStreamNext ==
    /\ call.fn = "ollama_stream"
    /\ call.pc = "reading"
    /\ call' = ollama_stream_line(call)
    /\ UNCHANGED <<phase, regVars, lastSwitch, dbVars, stream, workers, prev, resp, tasks>>

OpenAIStreamNext ==
    /\ call.fn = "openai_stream"
    /\ call.pc = "reading"
    /\ call' = openai_stream_line(call)
    /\ UNCHANGED <<phase, regVars, lastSwitch, dbVars, stream, workers, prev, resp, tasks>>

vars == <<phase, active_name, active_model, instance_cache, adapters, builds,
          lastSwitch, documents, llm_cache, saves, stream, workers, prev, resp,
          call, tasks>>

\* The provider registry under the provider management requests.
Next ==
    \/ Startup
    \/ get_active_provider
    \/ SwitchActiveProvider

Spec == Init /\ [][Next]_vars

\* The response cache under the cached requests of one process.
NextCache ==
    \/ Startup
    \/ upload_files
    \/ _process_document
    \/ Ask
    \/ Summarize
    \/ SwitchForCache

SpecCache == Init /\ [][NextCache]_vars

\* Streaming answers next to switches and cached requests.
NextStream ==
    \/ Startup
    \/ upload_files
    \/ _process_document
    \/ Ask
    \/ SwitchForStream
    \/ AskStream
    \/ StreamMeta
    \/ StreamDispatch
    \/ StreamToken
    \/ StreamDone
    \/ StreamFail
    \/ StreamAbandon

SpecStream == Init /\ [][NextStream]_vars

\* The response cache under /api/ask requests of several worker processes.
NextWorkers ==
    \/ upload_files
    \/ _process_document
    \/ WorkerAskLookup
    \/ WorkerAskGenerate
    \/ WorkerAskSave

SpecWorkers == InitWorkers /\ [][NextWorkers]_vars

\* split_text applied to the texts ingestion may extract.
NextChunk ==
    \/ SplitText

SpecChunk == Init /\ [][NextChunk]_vars

\* retrieve_relevant_chunks applied to the documents ingestion may store,
\* and the score it ranks by.
NextRetrieve ==
    \/ Retrieve
    \/ Cosine

SpecRetrieve == Init /\ [][NextRetrieve]_vars

\* Ingestion step by step, next to /api/ask requests of the worker processes.
NextIngest ==
    \/ upload_files
    \/ process_begin
    \/ process_extract
    \/ process_index
    \/ WorkerAskLookup
    \/ WorkerAskGenerate
    \/ WorkerAskSave

SpecIngest == InitWorkers /\ [][NextIngest]_vars

\* The cached requests of one process on the documents it ingested.
NextDocs ==
    \/ Startup
    \/ upload_files
    \/ _process_document
    \/ Ask
    \/ Summarize
    \/ Highlights

SpecDocs == Init /\ [][NextDocs]_vars

\* _parse_json_response on provider outputs.
NextParse ==
    \/ ParseResponse
    \/ ParseFenced

SpecParse == Init /\ [][NextParse]_vars

\* split_text_chars, one call per run; the loop of a call keeps running.
NextChars ==
    \/ SplitTextChars
    \/ SplitTextCharsLoop

SpecChars == Init /\ [][NextChars]_vars /\ WF_vars(SplitTextCharsLoop)

\* Calls on adapters, one call per run.
NextAdapters ==
    \/ GetModels
    \/ SendRequest
    \/ OllamaStreamOpen
    \/ OllamaStreamNext
    \/ OpenAIStreamOpen
    \/ OpenAIStreamNext

SpecAdapters == Init /\ [][NextAdapters]_vars

\* ---------------------------------------------------------------------------
\* Properties
\* ---------------------------------------------------------------------------

\* The model an adapter serves when it was obtained for (name, model).
ExpectedModel(name, model) == IF Truthy(model) THEN model ELSE default_model(name)

\* C1: after a successful switch_provider(name, model) and until the next
\* successful switch, every get_provider() returns an adapter whose
\* provider_name is name and whose active_model is model when a (non-empty)
\* model was given, else the provider's configured default_model.
C1_GetProviderFollowsLastSwitch ==
    (resp.op = "get_provider" /\ lastSwitch # NoSwitch) =>
        /\ resp.status = 200
        /\ adapters[resp.ref].provider_name = lastSwitch[1]
        /\ adapters[resp.ref].active_model = ExpectedModel(lastSwitch[1], lastSwitch[2])

\* A get_provider() answered after switching to another provider with a model.
C1_Witness ==
    /\ resp.op = "get_provider"
    /\ lastSwitch = <<"openai", "m1">>
    /\ adapters[resp.ref].active_model = "m1"

\* C2: an adapter reference obtained before a switch keeps its
\* (provider_name, active_model) identity through every later switch, and
\* the fragments of a generation dispatched on it come from that adapter
\* with the model it was dispatched with.
C2_HeldAdapterKeepsIdentity ==
    stream.ref # NoRef =>
        /\ <<adapters[stream.ref].provider_name, adapters[stream.ref].active_model>>
               = stream.identity
        /\ \A i \in 1..Len(stream.tokens) :
               /\ stream.tokens[i].by = stream.ref
               /\ stream.tokens[i].model = stream.identity[2]

\* A fragment was delivered while another adapter was already the active one.
C2_Witness ==
    /\ stream.pc \in {"streaming", "done"}
    /\ ActiveRef # stream.ref
    /\ \E i \in 1..Len(stream.tokens) : stream.tokens[i].active_then # stream.ref

\* C3: a switch that fails (unknown name, or the adapter cannot be built)
\* leaves the active pair, the instance cache and the adapters as they were.
C3_FailedSwitchChangesNothing ==
    [][(resp'.op = "switch" /\ resp'.status # 200)
          => UNCHANGED <<active_name, active_model, instance_cache, adapters>>]_vars

\* A switch failed at construction after an earlier switch had succeeded, and
\* the earlier selection is still the active one.
C3_Witness ==
    /\ resp.op = "switch"
    /\ resp.status = 500
    /\ lastSwitch = <<"openai", "m1">>
    /\ <<active_name, active_model>> = lastSwitch
    /\ InstanceKey(active_name, active_model) \in DOMAIN instance_cache

\* C4: a switch to a name that is neither a known nor a configured provider
\* fails, and the error names the requested value and the valid names.
C4_UnknownProviderErrorNamesBoth ==
    (resp.op = "switch" /\ resp.name \notin PROVIDER_NAMES
                        /\ resp.name \notin ConfiguredProviders) =>
        /\ resp.status = 400
        /\ resp.detail.requested = resp.name
        /\ resp.detail.valid = ConfiguredProviders

\* A switch to an unknown name was rejected.
C4_Witness ==
    /\ resp.op = "switch"
    /\ resp.name = "bogus"
    /\ resp.status = 400

\* C5: an adapter is built at most once per cache key, a cached adapter is
\* never rebuilt, replaced or evicted, and a successful get_provider or
\* switch_provider returns the cached instance of the pair it resolved to.
C5_OneInstancePerPair ==
    [][/\ \A k \in DOMAIN instance_cache :
              k \in DOMAIN instance_cache' /\ instance_cache'[k] = instance_cache[k]
       /\ \A i \in 1..Len(adapters) : i <= Len(adapters') /\ adapters'[i] = adapters[i]
       /\ \A k \in DOMAIN builds' : builds'[k] <= 1
       /\ (resp'.op \in {"get_provider", "switch"} /\ resp'.status = 200) =>
              resp'.ref = instance_cache'[InstanceKey(active_name', active_model')]
      ]_vars

\* A switch returned an adapter that had been cached before later ones were built.
C5_Witness ==
    /\ resp.op = "switch"
    /\ resp.status = 200
    /\ resp.ref < Len(adapters)
    /\ Len(adapters) >= 3

\* The pair the registry has been told to serve.
SelectedPair == IF lastSwitch = NoSwitch THEN <<DefaultProvider, NoneVal>> ELSE lastSwitch

IsDocRequest(r) == r.op \in {"ask", "summarize"}

TaskOf(op) == IF op = "ask" THEN TaskAsk ELSE TaskSummarize

C10_StreamNeverWritesCache ==
    [][stream' # stream => llm_cache' = llm_cache]_vars

\* A stream delivered its fragments and completed, and the cache is as empty
\* as it was before the stream.
C10_Witness ==
    /\ stream.pc = "done"
    /\ Len(stream.tokens) = MaxTokens
    /\ llm_cache = {}

\* segment i of a split_text result without the text it repeats from the
\* segment before it.
WithoutOverlap(chunk) ==
    LET whole == join(chunk.sentences)
        repeated == join(SubSeq(chunk.sentences, 1, chunk.carried))
    IN  SubSeq(whole, Len(repeated) + 1, Len(whole))

RECURSIVE Reassembled(_)
Reassembled(chunks) ==
    IF chunks = <<>> THEN <<>> ELSE WithoutOverlap(chunks[1]) \o Reassembled(Tail(chunks))

\* C11: the segments split_text returns, concatenated in order without the
\* tails they repeat from their predecessors, are the text that was split.
C11_SplitTextIsLossless ==
    call.fn = "split_text" => Reassembled(call.chunks) = call.text

\* A text has no sentence boundary: no '.', '!' or '?' followed by whitespace.
NoSentenceBoundary(t) ==
    \A i \in 1..(Len(t) - 1) : ~(t[i] \in SentenceEnd /\ IsSpace(t[i + 1]))

\* C12: a non-empty text without a sentence boundary comes back as exactly
\* one segment, equal to the whole text, whatever chunk_size and overlap.
C12_NoBoundaryGivesWholeText ==
    (call.fn = "split_text" /\ call.text # <<>> /\ NoSentenceBoundary(call.text)) =>
        call.result = <<call.text>>

\* C13: without stored vectors, or without a query vector, retrieval returns
\* the contents of the first top_k chunks by index, in index order, whatever
\* the question; top_k is the argument of the caller, and the configured
\* value when the caller gives none.
C13_FallbackIsFirstChunksByIndex ==
    (call.fn = "retrieve" /\ (call.stored = <<>> \/ call.q_emb = NoEmbedding)) =>
        LET k == IF call.top_k = NoTopK THEN top_k ELSE call.top_k
            n == Len(call.chunks)
        IN  /\ Len(call.out.texts) = Min(k, n)
            /\ \A i \in 1..Len(call.out.texts) : call.out.texts[i] = call.chunks[i]

\* C14: with stored vectors and a query vector the texts come in
\* non-increasing score order, equal scores in ascending chunk order, and no
\* chunk left out scores strictly higher than one that is returned.
C14_RankedByScoreTiesByIndex ==
    (call.fn = "retrieve" /\ call.stored # <<>> /\ call.q_emb # NoEmbedding) =>
        LET order == call.out.order
            score == [i \in 1..Len(call.stored) |->
                          _cosine(call.q_emb, call.stored[i].embedding)]
        IN  /\ Len(order) = Min(call.out.k, Len(call.stored))
            /\ \A i \in 1..Len(order) :
                   /\ order[i] \in 1..Len(call.stored)
                   /\ call.out.texts[i] = call.stored[order[i]].content
            /\ \A i, j \in 1..Len(order) :
                   i < j => /\ score[order[i]] >= score[order[j]]
                            /\ (score[order[i]] = score[order[j]] => order[i] < order[j])
            /\ \A p \in 1..Len(call.stored) :
                   (\A i \in 1..Len(order) : order[i] # p) =>
                       \A i \in 1..Len(order) : score[p] <= score[order[i]]

\* Three chunks, the last one scoring highest and the first two tied: the
\* two returned are the last and then the first.
C14_Witness ==
    /\ call.fn = "retrieve"
    /\ call.q_emb = <<1, 1>>
    /\ Len(call.stored) = 3
    /\ call.top_k = 2
    /\ call.stored[1].embedding = <<1, 0>>
    /\ call.stored[2].embedding = <<0, 1>>
    /\ call.stored[3].embedding = <<1, 1>>
    /\ call.out.order = <<3, 1>>

\* The status changes the lifecycle allows.
StatusSteps == {<<"pending", "processing">>, <<"processing", "ready">>,
                <<"processing", "error">>}

\* C15: a document starts as pending and its status changes only along
\* pending -> processing -> ready and processing -> error, so ready and
\* error are final.
C15_StatusLifecycle ==
    [][/\ \A d \in DOMAIN documents' \ DOMAIN documents : documents'[d].status = "pending"
       /\ \A d \in DOMAIN documents :
              /\ d \in DOMAIN documents'
              /\ \/ documents'[d].status = documents[d].status
                 \/ <<documents[d].status, documents'[d].status>> \in StatusSteps
      ]_vars

\* C18: for every provider output _parse_json_response returns without
\* raising, and what it returns is a JSON object: the recovered one, or
\* {raw: original text}.
C18_ParseNeverRaises ==
    call.fn = "parse_json_response" =>
        /\ ~call.out.raised
        /\ call.out.value.type = "dict"

\* C19: a JSON object text inside a code fence parses to what the same text
\* parses to without the fence, whatever its string values hold.
C19_FencedParsesLikePlain ==
    call.fn = "fenced" => call.out = call.plain

\* A string value that itself holds a fence, parsed to a dict both ways.
C19_Witness ==
    /\ call.fn = "fenced"
    /\ \E i \in 1..Len(call.j) : i > 1 /\ IsPrefixAt(call.j, i, Fence)
    /\ ~call.out.raised
    /\ call.out.value.type = "dict"
    /\ call.out.value.members # <<>>
    /\ call.out = call.plain

\* The requests that start with the check of the document.
CheckedOps == {"ask", "summarize", "highlights"}

\* A step in which a request on a document was answered.
Answered(ops) == resp'.op \in ops /\ <<prev, resp>>' # <<prev, resp>>

\* C16: a summarize, highlights or ask request on an unknown document is
\* answered 404 and on a document that is not ready 409, and in both cases
\* without a cached result, without a generation call and without a write to
\* the cache.
C16_UnknownAndNotReadyFailAtOnce ==
    [][Answered(CheckedOps) =>
          LET d == resp'.doc_id
          IN  /\ d \notin DOMAIN documents <=> resp'.status = 404
              /\ (d \in DOMAIN documents /\ documents[d].status # "ready")
                     <=> resp'.status = 409
              /\ resp'.status \in {404, 409} =>
                     /\ resp'.body = NoResult
                     /\ ~resp'.generated
                     /\ call' = NoCall
                     /\ llm_cache' = llm_cache
                     /\ saves' = saves
      ]_vars

\* Highlights was refused for a document whose ingestion failed after its
\* chunks were stored.
C16_Witness ==
    /\ resp.op = "highlights" /\ resp.status = 409
    /\ resp.body = NoResult /\ ~resp.generated
    /\ resp.doc_id \in DOMAIN documents
    /\ documents[resp.doc_id].status = "error"
    /\ documents[resp.doc_id].nchunks > 0
    /\ llm_cache = {}

BudgetOf(op) == IF op = "summarize" THEN MAX_CHARS ELSE HIGHLIGHTS_MAX_CHARS
BuilderOf(op) == IF op = "summarize" THEN "build_summary_prompt"
                 ELSE "build_highlights_prompt"

C28_ReturnsMinOfKAndN ==
    call.fn = "retrieve" =>
        LET k == IF call.top_k = NoTopK THEN top_k ELSE call.top_k
            n == IF call.stored = <<>> \/ call.q_emb = NoEmbedding
                 THEN Len(call.chunks) ELSE Len(call.stored)
        IN  Len(call.out.texts) = Min(k, n)

\* C27: a segment of split_text that is joined from two or more sentences is
\* at most chunk_size characters long, the joining blanks and the sentences
\* carried over from the segment before included.
C27_JoinedSegmentFitsChunkSize ==
    call.fn = "split_text" =>
        \A i \in 1..Len(call.chunks) :
            Len(call.chunks[i].sentences) >= 2 => Len(call.result[i]) <= call.chunk_size

\* C29: every call of split_text_chars with chunk_size >= 1 and overlap >= 0,
\* overlap >= chunk_size included, returns.
C29_SplitTextCharsTerminates ==
    (call.fn = "split_text_chars") ~>
        (call.fn = "split_text_chars" /\ call.pc = "returned")

\* C30: the score of a pair of vectors is the same in both orders, and it is
\* 0 when one of the two has norm 0.
C30_CosineSymmetricAndTotal ==
    call.fn = "_cosine" =>
        /\ call.ab = call.ba
        /\ (Dot(call.a, call.a) = 0 \/ Dot(call.b, call.b) = 0) => call.ab = 0

\* The score of two different vectors that are neither parallel nor
\* orthogonal was computed.
C30_Witness ==
    /\ call.fn = "_cosine"
    /\ call.a = <<1, 0>>
    /\ call.b = <<1, 1>>
    /\ call.ab = 2
    /\ call.ba = 2

\* C25: a document whose status is ready has been ingested to the end: the
\* task that stores its chunks and embeddings has finished.
C25_ReadyMeansIndexed ==
    \A d \in DOMAIN documents :
        documents[d].status = "ready" =>
            d \in DOMAIN tasks /\ tasks[d].pc = "finished"

\* The texts a success result may carry: what an adapter returned, stripped.
Generated == {strip(o) : o \in Outputs}

MetFailure(c) ==
    \/ c.cls \in SdkAdapters /\ ~c.env.sdk
    \/ c.cls # "AnthropicProvider" /\ c.env.backend # "ok"

\* C21: get_models of every adapter raises nothing, and returns the empty
\* list when the call meets a failure, an absent vendor SDK included.
C21_GetModelsEmptyOnFailure ==
    call.fn = "get_models" =>
        /\ ~call.out.raised
        /\ MetFailure(call) => call.out.models = <<>>

\* C22: every adapter sends each of temperature, max_tokens and top_p, with
\* the value of the caller when the caller gave one and the configured
\* default otherwise.
C22_OptionsPassedThrough ==
    call.fn = "request" =>
        \A o \in Options :
            /\ o \in DOMAIN call.options
            /\ call.options[o] = IF o \in DOMAIN call.kwargs THEN call.kwargs[o]
                                 ELSE GenerationDefaults[o]

\* The fragments of the lines lines[1..n]: the non-empty texts of the
\* objects, in order.
RECURSIVE FragmentsOf(_, _)
FragmentsOf(lines, n) ==
    IF n = 0 THEN <<>>
    ELSE IF lines[n].kind = "object" /\ lines[n].text # ""
    THEN Append(FragmentsOf(lines, n - 1), lines[n].text)
    ELSE FragmentsOf(lines, n - 1)

\* C23: while the backend sends objects, blank lines and lines that are not
\* JSON, the Ollama stream has yielded the non-empty response fragments of
\* the lines read, in order; it reads no line after the first one with
\* done = true and has ended there; a line that is not JSON does not end it.
C23_OllamaStreamEndsAtDone ==
    (call.fn = "ollama_stream"
         /\ \A i \in 1..call.pos : call.lines[i].kind # "not_object") =>
        /\ call.yielded = FragmentsOf(call.lines, call.pos)
        /\ \A i \in 1..call.pos : call.lines[i].done => (i = call.pos /\ call.pc = "ended")
        /\ call.pc # "raised"
        /\ (call.pc = "ended" /\ call.pos < Len(call.lines)) => call.lines[call.pos].done
        /\ (call.pos > 0 /\ call.pos < Len(call.lines)
                /\ call.lines[call.pos].kind = "invalid") => call.pc = "reading"

\* The stream yielded a fragment, skipped a line that is not JSON, yielded
\* the fragment of the line with done = true and ended with a line unread.
C23_Witness ==
    /\ call.fn = "ollama_stream"
    /\ call.lines = <<Line("invalid", "", FALSE), Line("object", "a", TRUE),
                      Line("object", "b", FALSE)>>
    /\ call.pos = 2
    /\ call.yielded = <<"a">>
    /\ call.pc = "ended"

\* C24: the OpenAI-compatible stream has yielded the non-empty contents of
\* the events read, in order; it reads nothing after the first [DONE] and
\* has ended there; an event with a malformed payload does not end it.
C24_OpenAIStreamEndsAtDone ==
    call.fn = "openai_stream" =>
        /\ call.yielded = FragmentsOf(call.lines, call.pos)
        /\ \A i \in 1..call.pos :
               call.lines[i].kind = "sentinel" => (i = call.pos /\ call.pc = "ended")
        /\ call.pc # "raised"
        /\ (call.pc = "ended" /\ call.pos < Len(call.lines)) =>
               call.lines[call.pos].kind = "sentinel"

====
